---- MODULE Spec2Model ----
(***************************************************************************)
(* Model of cbus/daemon/cmqttd.py: the command queue, dispatcher, timeout  *)
(* watchdog and confirmation handler of CBusHandler, and the MQTT ingress  *)
(* and state publishing of MqttClient.                                     *)
(*                                                                         *)
(* The daemon runs on one cooperative asyncio event loop: a coroutine runs *)
(* atomically from one await that suspends to the next.  queue_lock is     *)
(* never held across an await, so acquiring it never suspends.  Each       *)
(* action below is one such atomic stretch.  Time is counted in ticks of   *)
(* TickMs; sleep(d) resumes the task d later.  A cancelled task receives   *)
(* CancelledError at its await and runs no further statement (Python 3.8+, *)
(* where CancelledError is not an Exception).                              *)
(***************************************************************************)
EXTENDS Integers, Sequences, FiniteSets, TLC

--------------------------------------------------------------------------
(* Bounds of the model *)

\* commands accepted by queue_command over a run
MaxCmds == 2
\* dispatcher and watchdog tasks alive at once (start creates two)
MaxTasks == 4
\* confirmation codes the PCI hands out
NumTokens == 2
\* highest group address (MAX_GROUP_ADDR of cbus.common, scaled down)
MAX_GROUP_ADDR == 5

--------------------------------------------------------------------------
(* Program constants *)

MIN_GROUP_ADDR == 1
\* await sleep(0.1) after each command (rate limiting)
INTER_FRAME_GAP_MS == 100
\* await sleep(0.1) when both queues are empty
POLL_MS == 100
\* await sleep(0.05) in the watchdog
WATCHDOG_PERIOD_MS == 50
\* current_time - cmd.timestamp > 0.25
CONFIRM_TIMEOUT_MS == 250
\* max_retries=3 in queue_command
MAX_RETRIES == 3

TickMs == WATCHDOG_PERIOD_MS
Ticks(ms) == ms \div TickMs
GapTicks == Ticks(INTER_FRAME_GAP_MS)
\* ages are counted up to the first value that is past the timeout
AgeCap == Ticks(CONFIRM_TIMEOUT_MS) + 1

_DEVICE_TYPE_LIGHT == "light"
_DEVICE_TYPE_LIGHT_NON_DIMMABLE == "light_non_dimmable"
_DEVICE_TYPE_SWITCH == "switch"
_DEVICE_TYPE_BINARY_SENSOR == "binary_sensor"
_DEVICE_TYPE_IGNORE == "ignore"

ga_range == MIN_GROUP_ADDR..MAX_GROUP_ADDR

\* the device_types dict built from the command line: one address of each
\* configurable kind; every other address is absent from the dict
device_types ==
    (2 :> _DEVICE_TYPE_SWITCH) @@ (3 :> _DEVICE_TYPE_LIGHT_NON_DIMMABLE)
    @@ (4 :> _DEVICE_TYPE_BINARY_SENSOR) @@ (5 :> _DEVICE_TYPE_IGNORE)

get_device_type(group_addr) ==
    IF group_addr \in DOMAIN device_types
    THEN device_types[group_addr] ELSE _DEVICE_TYPE_LIGHT

Tokens == 1..NumTokens
\* _send_queued_command returned None, or the lighting call raised
None == 0

VARIABLES
    command_queue,          \* Queue(): FIFO of new commands
    retry_queue,            \* deque(): retries, FIFO
    pending_confirmations,  \* dict code -> QueuedCommand, in insertion order
    queue_running,          \* self._queue_running
    tasks,                  \* the live asyncio tasks, in creation order
    mqtt_api,               \* self.mqtt_api is set
    retained,               \* broker: retained payload of each state topic
    subscribed,             \* topics of the last subscribe call
    discovery,              \* config topics published at the last connect
    \* history variables
    nextId,                 \* commands accepted so far, plus one
    sends,                  \* id -> frames sent for that command
    published,              \* id -> state publishes made for that command
    okConfirmed,            \* ids that got success=True while pending
    errorLog,               \* ids logged at ERROR as failed for good
    sinceSend,              \* ticks since the last frame was sent (capped)
    lost,                   \* transport lost since the last connect, if any
    lastKind,               \* device type of the last set message handled
    lastEvent               \* what the latest step did, where recorded

vars == <<command_queue, retry_queue, pending_confirmations, queue_running,
          tasks, mqtt_api, retained, subscribed, discovery, nextId, sends,
          published, okConfirmed, errorLog, sinceSend, lost, lastKind,
          lastEvent>>

queueVars == <<command_queue, retry_queue, pending_confirmations>>
mqttVars == <<subscribed, discovery>>
histVars == <<nextId, sends, published, okConfirmed,
              errorLog, sinceSend>>
\* history variables that only some specifications record
ghostVars == <<lost, lastKind, lastEvent>>

CmdIds == 1..MaxCmds

\* lastEvent when the latest step is not one a specification records
NoEvent == [ev |-> "none"]

--------------------------------------------------------------------------
(* MqttClient: state topics and the state publishes *)

\* cbus_source_addr of a publish made for a confirmed command (None)
NoSource == -1

state_topic_for_device(group_addr, device_type) ==
    IF device_type = _DEVICE_TYPE_SWITCH THEN <<"switch", group_addr>>
    ELSE IF device_type = _DEVICE_TYPE_BINARY_SENSOR
    THEN <<"binary_sensor", group_addr>>
    ELSE <<"light", group_addr>>

StateTopics == {"light", "switch", "binary_sensor"} \X ga_range
NoPayload == [none |-> TRUE]

color_mode(device_type) ==
    IF device_type = _DEVICE_TYPE_LIGHT_NON_DIMMABLE THEN "onoff"
    ELSE "brightness"

publish_binary_sensor(group_addr, state) ==
    [topic |-> <<"binary_sensor", group_addr>>,
     payload |-> [plain |-> IF state THEN "ON" ELSE "OFF"]]

\* what lighting_group_on publishes (retained, QoS 1)
lighting_group_on(source_addr, group_addr, device_type) ==
    IF device_type = _DEVICE_TYPE_BINARY_SENSOR
    THEN publish_binary_sensor(group_addr, TRUE)
    ELSE IF device_type = _DEVICE_TYPE_SWITCH
    THEN [topic |-> state_topic_for_device(group_addr, device_type),
          payload |-> [plain |-> "ON"]]
    ELSE [topic |-> state_topic_for_device(group_addr, device_type),
          payload |-> [state |-> "ON", brightness |-> 255, transition |-> 0,
                       cbus_source_addr |-> source_addr,
                       color_mode |-> color_mode(device_type)]]

lighting_group_off(source_addr, group_addr, device_type) ==
    IF device_type = _DEVICE_TYPE_BINARY_SENSOR
    THEN publish_binary_sensor(group_addr, FALSE)
    ELSE IF device_type = _DEVICE_TYPE_SWITCH
    THEN [topic |-> state_topic_for_device(group_addr, device_type),
          payload |-> [plain |-> "OFF"]]
    ELSE [topic |-> state_topic_for_device(group_addr, device_type),
          payload |-> [state |-> "OFF", brightness |-> 0, transition |-> 0,
                       cbus_source_addr |-> source_addr,
                       color_mode |-> color_mode(device_type)]]

lighting_group_ramp(source_addr, group_addr, duration, level, device_type) ==
    IF device_type = _DEVICE_TYPE_BINARY_SENSOR
    THEN publish_binary_sensor(group_addr, level > 0)
    ELSE IF device_type = _DEVICE_TYPE_SWITCH
    THEN [topic |-> state_topic_for_device(group_addr, device_type),
          payload |-> [plain |-> IF level = 0 THEN "OFF" ELSE "ON"]]
    ELSE [topic |-> state_topic_for_device(group_addr, device_type),
          payload |-> [state |-> IF level = 0 THEN "OFF" ELSE "ON",
                       brightness |-> level, transition |-> duration,
                       cbus_source_addr |-> source_addr,
                       color_mode |-> color_mode(device_type)]]

\* set_topic: the light set topic of a group address
set_topic(group_addr) == <<"light", group_addr, "set">>

\* on_connect, lines 497-502: no subscription for ignored devices and for
\* binary sensors
Subscribable(device_type) ==
    /\ device_type # _DEVICE_TYPE_IGNORE
    /\ device_type # _DEVICE_TYPE_BINARY_SENSOR

\* _META_TOPIC + _TOPIC_CONF_SUFFIX
MetaConfTopic == <<"binary_sensor", 0, "config">>

\* the topic on which publish_all_lights publishes the config of a device
ConfigTopic(group_addr, device_type) ==
    IF device_type = _DEVICE_TYPE_SWITCH THEN <<"switch", group_addr, "config">>
    ELSE IF device_type = _DEVICE_TYPE_BINARY_SENSOR
    THEN <<"binary_sensor", group_addr, "config">>
    ELSE <<"light", group_addr, "config">>

HasDiscovery_All(device_type) == TRUE
\* publish_all_lights, lines 685-686: ignored devices are skipped
HasDiscovery(device_type) == device_type # _DEVICE_TYPE_IGNORE

\* the config topics publish_all_lights publishes on
publish_all_lights ==
    {MetaConfTopic} \cup
    { ConfigTopic(ga, get_device_type(ga)) :
        ga \in {g \in ga_range : HasDiscovery(get_device_type(g))} }

--------------------------------------------------------------------------
(* QueuedCommand and the MQTT ingress *)

QueuedCommand(id, command_type, group_addr, device_type, params, mqtt_state) ==
    [id |-> id, command_type |-> command_type, group_addr |-> group_addr,
     device_type |-> device_type, params |-> params,
     confirmation_code |-> None, age |-> 0, retry_count |-> 0,
     max_retries |-> MAX_RETRIES, is_retry |-> FALSE,
     mqtt_state_update |-> mqtt_state]

\* the set messages delivered: (group address, payload); one for a light and
\* one for an ignored address
MsgInputs ==
    { <<1, [fmt |-> "plain", text |-> "ON"]>>,
      <<5, [fmt |-> "plain", text |-> "ON"]>> }

\* str.upper() on the strings the inputs use
Upper(str) ==
    IF str = "on" THEN "ON" ELSE IF str = "off" THEN "OFF" ELSE str

\* str.strip() on the strings the inputs use
Strip(str) ==
    IF str = " on " THEN "on" ELSE IF str = " OFF " THEN "OFF" ELSE str

\* Lines 540-564.  A payload is the bytes of a JSON object ("json", with its
\* fields), of a JSON string ("json_string": the text between double
\* quotes), of a JSON number ("json_number"), or bytes that are not JSON
\* ("plain").  json.loads succeeds on the first three and returns a dict, a
\* str or an int; on plain bytes it fails and the text, stripped and
\* upper-cased, is taken when it is ON or OFF; <<>> when the message is
\* dropped at line 551.  The handler at lines 552-561 needs
\* msg.payload.decode to fail and is not reached with the bytes paho
\* delivers.
ParsePayload(p) ==
    IF p.fmt = "json" THEN p.fields
    ELSE IF p.fmt = "json_string" THEN [json_string |-> p.text]
    ELSE IF p.fmt = "json_number" THEN [json_number |-> p.value]
    ELSE IF Upper(Strip(p.text)) \in {"ON", "OFF"}
    THEN [state |-> Upper(Strip(p.text))]
    ELSE <<>>

OnOffOnly_Never(device_type) == FALSE
\* lines 570 and 585: the device takes only full on or off
OnOffOnly(device_type) ==
    device_type \in {_DEVICE_TYPE_LIGHT_NON_DIMMABLE, _DEVICE_TYPE_SWITCH}

Rejected_IgnoreOnly(device_type) == device_type = _DEVICE_TYPE_IGNORE
\* lines 529-536: set messages for ignored devices and binary sensors are
\* dropped
Rejected(device_type) ==
    \/ device_type = _DEVICE_TYPE_IGNORE
    \/ device_type = _DEVICE_TYPE_BINARY_SENSOR

Get(d, key, default) == IF key \in DOMAIN d THEN d[key] ELSE default

ClampBrightness_None(b) == b
\* lines 575-578
ClampBrightness(b) == IF b < 0 THEN 0 ELSE IF b > 255 THEN 255 ELSE b

\* the command on_message hands to queue_command for a parsed payload
CommandOf(id, ga, device_type, payload) ==
    LET light_on == Upper(payload.state) = "ON"
        b0 == Get(payload, "brightness", 255)
        onoff == OnOffOnly(device_type)
        brightness == IF onoff THEN (IF light_on THEN 255 ELSE 0)
                      ELSE ClampBrightness(b0)
        t0 == Get(payload, "transition", 0)
        transition_time == IF onoff THEN 0 ELSE IF t0 < 0 THEN 0 ELSE t0
    IN IF light_on
       THEN IF brightness = 255 /\ transition_time = 0
            THEN QueuedCommand(id, "on", ga, device_type, <<>>,
                     [state |-> "ON", brightness |-> 255, transition |-> 0,
                      device_type |-> device_type])
            ELSE QueuedCommand(id, "ramp", ga, device_type,
                     [duration |-> transition_time, level |-> brightness],
                     [state |-> IF brightness > 0 THEN "ON" ELSE "OFF",
                      brightness |-> brightness,
                      transition |-> transition_time,
                      device_type |-> device_type])
       ELSE IF transition_time > 0
            THEN QueuedCommand(id, "ramp", ga, device_type,
                     [duration |-> transition_time, level |-> 0],
                     [state |-> "OFF", brightness |-> 0,
                      transition |-> transition_time,
                      device_type |-> device_type])
            ELSE QueuedCommand(id, "off", ga, device_type, <<>>,
                     [state |-> "OFF", brightness |-> 0, transition |-> 0,
                      device_type |-> device_type])

Put_Front(q, cmd) == <<cmd>> \o q
\* line 253: self.command_queue.put(cmd)
Put(q, cmd) == Append(q, cmd)

\* a queue_command that folds a command into an equal one at the tail
queue_command_Coalesce(cmd) ==
    /\ command_queue' =
          IF /\ command_queue # <<>>
             /\ command_queue[Len(command_queue)].command_type
                    = cmd.command_type
             /\ command_queue[Len(command_queue)].group_addr = cmd.group_addr
          THEN command_queue
          ELSE Put(command_queue, cmd)
    /\ nextId' = nextId + 1

\* a queue_command that drops the command while the queue system is stopped
queue_command_WhenRunning(cmd) ==
    /\ command_queue' =
          IF queue_running THEN Put(command_queue, cmd) ELSE command_queue
    /\ nextId' = nextId + 1

\* queue_command: one new command at the tail of the fresh queue
queue_command(cmd) ==
    /\ command_queue' = Put(command_queue, cmd)
    /\ nextId' = nextId + 1

\* on_message for a set topic of group address ga.  payload['state'] at
\* line 566 raises for a dict without that key, a str or an int, which ends
\* the callback before anything is enqueued.
on_message(ga, p) ==
    /\ mqtt_api
    /\ nextId <= MaxCmds
    /\ LET device_type == get_device_type(ga)
           payload == ParsePayload(p)
       IN IF \/ Rejected(device_type)
             \/ payload = <<>>
             \/ "state" \notin DOMAIN payload
          THEN UNCHANGED <<command_queue, nextId>>
          ELSE queue_command(CommandOf(nextId, ga, device_type, payload))
    /\ UNCHANGED <<retry_queue, pending_confirmations, queue_running, tasks,
                   mqtt_api, retained, mqttVars, sends,
                   published, okConfirmed, errorLog, sinceSend>>

--------------------------------------------------------------------------
(* Helpers: sequences, the pending dict, asyncio tasks *)

Min(a, b) == IF a < b THEN a ELSE b
Remove(seq, i) == SubSeq(seq, 1, i - 1) \o SubSeq(seq, i + 1, Len(seq))
Ids(seq) == {seq[i].id : i \in DOMAIN seq}

\* a Python dict keeps its keys in insertion order; assigning to a key that
\* is present replaces the value in place
DictHas(d, code) == \E i \in DOMAIN d : d[i].confirmation_code = code
DictGet(d, code) ==
    d[CHOOSE i \in DOMAIN d : d[i].confirmation_code = code]
DictDel(d, code) == SelectSeq(d, LAMBDA c : c.confirmation_code # code)
DictSet(d, code, cmd) ==
    IF DictHas(d, code)
    THEN [i \in DOMAIN d |->
             IF d[i].confirmation_code = code THEN cmd ELSE d[i]]
    ELSE Append(d, cmd)

NewTask(kind) == [kind |-> kind, st |-> "new", timer |-> 0, ref |-> TRUE]
Sleeping(t, ms) == [t EXCEPT !.st = "sleep", !.timer = Ticks(ms)]

\* create_task schedules the first step with call_soon, so first steps run in
\* creation order; a sleeping task runs when its timer has run out
Runnable(i) ==
    \/ tasks[i].st = "new" /\ \A j \in 1..(i - 1) : tasks[j].st # "new"
    \/ tasks[i].st = "sleep" /\ tasks[i].timer = 0

\* what lighting_group_on / _off / _ramp of the PCI protocol can hand back to
\* _send_queued_command: a confirmation code that identifies no other
\* outstanding command, or nothing (None, or it raised)
SendResults_AnyToken == Tokens \cup {None}
SendResults ==
    {t \in Tokens : ~DictHas(pending_confirmations, t)} \cup {None}

--------------------------------------------------------------------------
(* Lifecycle: MqttClient.on_connect / start_queue_system,                  *)
(* CBusHandler.connection_lost / stop_queue_system                         *)

\* the tasks after start_queue_system: nothing when _queue_running is set,
\* else a new dispatcher and a new watchdog, which the handler's two task
\* fields now refer to
start_queue_system ==
    IF queue_running THEN tasks
    ELSE [i \in DOMAIN tasks |-> [tasks[i] EXCEPT !.ref = FALSE]]
         \o <<NewTask("proc"), NewTask("wd")>>

\* the tasks after stop_queue_system: the two tasks the fields refer to are
\* cancelled
stop_queue_system == SelectSeq(tasks, LAMBDA t : ~t.ref)

\* lines 493-507: the (topic, QoS 2) list handed to self.subscribe
SubscribeTopics ==
    UNION { {set_topic(ga), <<"switch", ga, "set">>} :
              ga \in {g \in ga_range : Subscribable(get_device_type(g))} }

on_connect_calls_DiscoveryFirst ==
    << [call |-> "start_queue_system"],
       [call |-> "publish_all_lights", topics |-> publish_all_lights],
       [call |-> "subscribe", topics |-> SubscribeTopics] >>
\* lines 489-510: the calls on_connect makes, in the order it makes them,
\* with the topics handed to the broker
on_connect_calls ==
    << [call |-> "start_queue_system"],
       [call |-> "subscribe", topics |-> SubscribeTopics],
       [call |-> "publish_all_lights", topics |-> publish_all_lights] >>

on_connect ==
    /\ queue_running \/ Len(tasks) + 2 <= MaxTasks
    /\ mqtt_api' = TRUE
    /\ tasks' = start_queue_system
    /\ subscribed' = SubscribeTopics
    /\ discovery' = publish_all_lights
    /\ UNCHANGED <<queueVars, queue_running, retained, histVars>>

connection_lost ==
    /\ queue_running' = FALSE
    /\ tasks' = stop_queue_system
    /\ UNCHANGED <<queueVars, mqtt_api, retained, mqttVars, histVars>>

--------------------------------------------------------------------------
(* CBusHandler._queue_processor *)

ProcCanRetry_OffByOne(cmd) == cmd.retry_count <= cmd.max_retries
ProcCanRetry_Never(cmd) == FALSE
ProcCanRetry(cmd) == cmd.retry_count < cmd.max_retries

SelectWork_FreshFirst ==
    IF command_queue # <<>> THEN "fresh"
    ELSE IF retry_queue # <<>> THEN "retry"
    ELSE "none"

\* the dispatcher takes the head of the retry deque when there is one, else
\* the head of the fresh queue; "retry", "fresh" or "none"
SelectWork ==
    IF retry_queue # <<>> THEN "retry"
    ELSE IF command_queue # <<>> THEN "fresh"
    ELSE "none"

\* lines 304-324: send cmd, then track it or treat it as failed
ProcessCommand(cmd, rq) ==
    \E code \in SendResults :
        /\ sends' = [sends EXCEPT ![cmd.id] = @ + 1]
        /\ sinceSend' = 0
        /\ IF code # None
           THEN /\ pending_confirmations' =
                       DictSet(pending_confirmations, code,
                               [cmd EXCEPT !.confirmation_code = code,
                                           !.age = 0])
                /\ UNCHANGED errorLog
                /\ retry_queue' = rq
           ELSE /\ UNCHANGED pending_confirmations
                /\ IF ProcCanRetry(cmd)
                   THEN /\ retry_queue' =
                              Append(rq, [cmd EXCEPT !.retry_count = @ + 1,
                                                     !.is_retry = TRUE])
                        /\ UNCHANGED errorLog
                   ELSE /\ retry_queue' = rq
                        /\ errorLog' = errorLog \cup {cmd.id}

\* one run of the dispatcher from a resumption to its next sleep
QueueProcessorStep(i) ==
    /\ i \in DOMAIN tasks
    /\ tasks[i].kind = "proc"
    /\ Runnable(i)
    /\ IF tasks[i].st = "sleep" /\ ~queue_running
       THEN \* while self._queue_running: ends the task
            /\ tasks' = Remove(tasks, i)
            /\ UNCHANGED <<queueVars, queue_running, sends, errorLog, sinceSend>>
       ELSE /\ queue_running' = TRUE
            /\ IF SelectWork = "retry"
               THEN /\ ProcessCommand(Head(retry_queue), Tail(retry_queue))
                    /\ UNCHANGED command_queue
                    /\ tasks' = [tasks EXCEPT
                                    ![i] = Sleeping(@, INTER_FRAME_GAP_MS)]
               ELSE IF SelectWork = "fresh"
               THEN /\ ProcessCommand(Head(command_queue), retry_queue)
                    /\ command_queue' = Tail(command_queue)
                    /\ tasks' = [tasks EXCEPT
                                    ![i] = Sleeping(@, INTER_FRAME_GAP_MS)]
               ELSE /\ tasks' = [tasks EXCEPT ![i] = Sleeping(@, POLL_MS)]
                    /\ UNCHANGED <<queueVars, sends,
                                   errorLog, sinceSend>>
    /\ UNCHANGED <<mqtt_api, retained, mqttVars, nextId, published,
                   okConfirmed>>

--------------------------------------------------------------------------
(* CBusHandler._timeout_watchdog *)

WatchdogCanRetry_OffByOne(cmd) == cmd.retry_count <= cmd.max_retries
WatchdogCanRetry(cmd) == cmd.retry_count < cmd.max_retries

TimedOut_Never(cmd) == FALSE
TimedOut_Early(cmd) == cmd.age * TickMs >= CONFIRM_TIMEOUT_MS
\* current_time - cmd.timestamp > 0.25
TimedOut(cmd) == cmd.age * TickMs > CONFIRM_TIMEOUT_MS

WatchdogRemove_Keep(d, code) == d
\* lines 362-364: the entry leaves the pending dict
WatchdogRemove(d, code) == IF DictHas(d, code) THEN DictDel(d, code) ELSE d

\* lines 359-376 for the snapshot timed_out, in its order; st carries the
\* pending dict, the retry deque and the ERROR log
RECURSIVE HandleTimeouts(_, _)
HandleTimeouts(timed_out, st) ==
    IF timed_out = <<>> THEN st
    ELSE LET cmd == Head(timed_out)
             d == WatchdogRemove(st.pending, cmd.confirmation_code)
         IN HandleTimeouts(Tail(timed_out),
                IF WatchdogCanRetry(cmd)
                THEN [pending |-> d,
                      retry |-> Append(st.retry,
                                   [cmd EXCEPT !.retry_count = @ + 1,
                                               !.is_retry = TRUE,
                                               !.confirmation_code = None,
                                               !.age = 0]),
                      errors |-> st.errors]
                ELSE [pending |-> d, retry |-> st.retry,
                      errors |-> st.errors \cup {cmd.id}])

\* one run of the watchdog from a resumption to its next sleep
TimeoutWatchdogStep(i) ==
    /\ i \in DOMAIN tasks
    /\ tasks[i].kind = "wd"
    /\ Runnable(i)
    /\ IF tasks[i].st = "new"
       THEN UNCHANGED <<pending_confirmations, retry_queue, errorLog>>
       ELSE LET timed_out == SelectSeq(pending_confirmations, TimedOut)
                st == HandleTimeouts(timed_out,
                          [pending |-> pending_confirmations,
                           retry |-> retry_queue,
                           errors |-> errorLog])
            IN /\ pending_confirmations' = st.pending
               /\ retry_queue' = st.retry
               /\ errorLog' = st.errors
    /\ tasks' = IF queue_running
                THEN [tasks EXCEPT ![i] = Sleeping(@, WATCHDOG_PERIOD_MS)]
                ELSE Remove(tasks, i)
    /\ UNCHANGED <<command_queue, queue_running, mqtt_api, retained, mqttVars,
                   nextId, sends, published, okConfirmed, sinceSend>>

--------------------------------------------------------------------------
(* CBusHandler.on_confirmation (its handle_confirmation coroutine) *)

ConfirmCanRetry(cmd) == cmd.retry_count < cmd.max_retries

ConfirmPublish_On(cmd) ==
    lighting_group_on(NoSource, cmd.group_addr, cmd.device_type)
\* lines 433-443: the state publish of a confirmed command
ConfirmPublish(cmd) ==
    IF cmd.command_type = "on"
    THEN lighting_group_on(NoSource, cmd.group_addr, cmd.device_type)
    ELSE IF cmd.command_type = "off"
    THEN lighting_group_off(NoSource, cmd.group_addr, cmd.device_type)
    ELSE lighting_group_ramp(NoSource, cmd.group_addr, cmd.params.duration,
                             cmd.params.level, cmd.device_type)

Succeeded_Always(success) == TRUE
\* line 427: which branch a confirmation of a pending command takes
Succeeded(success) == success

ConfirmRemove_Keep(d, code) == d
\* line 425: del self.pending_confirmations[code]
ConfirmRemove(d, code) == DictDel(d, code)

ConfirmRequeue_Front(rq, cmd) == <<cmd>> \o rq
ConfirmRequeue_Drop(rq, cmd) == rq
\* line 454: self.retry_queue.append(cmd)
ConfirmRequeue(rq, cmd) == Append(rq, cmd)

ConfirmFind_Oldest(d, code) ==
    IF DictHas(d, code)
    THEN CHOOSE i \in DOMAIN d : d[i].confirmation_code = code
    ELSE IF d # <<>> THEN 1 ELSE 0
\* lines 418-424: the place of the entry stored under the code, 0 when the
\* code is not in the map
ConfirmFind(d, code) ==
    IF DictHas(d, code)
    THEN CHOOSE i \in DOMAIN d : d[i].confirmation_code = code
    ELSE 0

on_confirmation(code, success) ==
    /\ IF ConfirmFind(pending_confirmations, code) = 0
       THEN UNCHANGED <<pending_confirmations, retry_queue, retained,
                        published, okConfirmed, errorLog>>
       ELSE LET cmd == pending_confirmations[
                           ConfirmFind(pending_confirmations, code)]
            IN /\ pending_confirmations' =
                      ConfirmRemove(pending_confirmations, code)
               /\ okConfirmed' = IF success THEN okConfirmed \cup {cmd.id}
                                 ELSE okConfirmed
               /\ IF Succeeded(success)
                  THEN /\ IF mqtt_api /\ cmd.mqtt_state_update # <<>>
                          THEN LET pub == ConfirmPublish(cmd)
                               IN /\ retained' = [retained EXCEPT
                                                  ![pub.topic] = pub.payload]
                                  /\ published' = [published EXCEPT
                                                     ![cmd.id] = @ + 1]
                          ELSE UNCHANGED <<retained, published>>
                       /\ UNCHANGED <<retry_queue, errorLog>>
                  ELSE /\ UNCHANGED <<retained, published>>
                       /\ IF ConfirmCanRetry(cmd)
                          THEN /\ retry_queue' =
                                     ConfirmRequeue(retry_queue,
                                         [cmd EXCEPT
                                             !.retry_count = @ + 1,
                                             !.is_retry = TRUE,
                                             !.confirmation_code = None,
                                             !.age = 0])
                               /\ UNCHANGED errorLog
                          ELSE /\ errorLog' = errorLog \cup {cmd.id}
                               /\ UNCHANGED retry_queue
    /\ UNCHANGED <<command_queue, queue_running, tasks, mqtt_api, mqttVars,
                   nextId, sends, sinceSend>>

--------------------------------------------------------------------------
(* Bus events: CBusHandler.on_lighting_group_on / _off / _ramp *)

BusIgnored_Never(device_type) == FALSE
\* lines 187, 200 and 212: events of ignored devices are logged, not published
BusIgnored(device_type) == device_type = _DEVICE_TYPE_IGNORE

BusReady_WhenIdle == mqtt_api /\ retry_queue = <<>>
\* lines 182, 195 and 207: no MQTT client yet, nothing to publish to
BusReady == mqtt_api

\* the publishes each handler makes, in order
OnPublishes(source_addr, group_addr) ==
    LET device_type == get_device_type(group_addr)
    IN IF ~BusReady \/ BusIgnored(device_type) THEN <<>>
       ELSE <<lighting_group_on(source_addr, group_addr, device_type)>>

OffPublishes(source_addr, group_addr) ==
    LET device_type == get_device_type(group_addr)
    IN IF ~BusReady \/ BusIgnored(device_type) THEN <<>>
       ELSE <<lighting_group_off(source_addr, group_addr, device_type)>>

RampPublishes(source_addr, group_addr, duration, level) ==
    LET device_type == get_device_type(group_addr)
    IN IF ~BusReady \/ BusIgnored(device_type) THEN <<>>
       ELSE <<lighting_group_ramp(source_addr, group_addr, duration, level,
                                  device_type)>>

\* the broker's retained payloads after the publishes pubs, made in order
RECURSIVE Publish(_, _)
Publish(r, pubs) ==
    IF pubs = <<>> THEN r
    ELSE Publish([r EXCEPT ![Head(pubs).topic] = Head(pubs).payload],
                 Tail(pubs))

on_lighting_group_on(source_addr, group_addr) ==
    /\ retained' = Publish(retained, OnPublishes(source_addr, group_addr))
    /\ UNCHANGED <<queueVars, queue_running, tasks, mqtt_api, mqttVars,
                   histVars>>

on_lighting_group_off(source_addr, group_addr) ==
    /\ retained' = Publish(retained, OffPublishes(source_addr, group_addr))
    /\ UNCHANGED <<queueVars, queue_running, tasks, mqtt_api, mqttVars,
                   histVars>>

on_lighting_group_ramp(source_addr, group_addr, duration, level) ==
    /\ retained' = Publish(retained,
                       RampPublishes(source_addr, group_addr, duration, level))
    /\ UNCHANGED <<queueVars, queue_running, tasks, mqtt_api, mqttVars,
                   histVars>>

--------------------------------------------------------------------------
(* Time *)

\* one tick passes: only when no task is due, since a due task runs first
Tick ==
    /\ \A i \in DOMAIN tasks : tasks[i].st = "sleep" /\ tasks[i].timer > 0
    /\ tasks' = [i \in DOMAIN tasks |-> [tasks[i] EXCEPT !.timer = @ - 1]]
    /\ pending_confirmations' =
          [i \in DOMAIN pending_confirmations |->
              [pending_confirmations[i] EXCEPT !.age = Min(@ + 1, AgeCap)]]
    /\ sinceSend' = Min(sinceSend + 1, GapTicks)
    /\ UNCHANGED <<command_queue, retry_queue, queue_running, mqtt_api,
                   retained, mqttVars, nextId, sends,
                   published, okConfirmed, errorLog>>

--------------------------------------------------------------------------
(* The specification *)

\* CBusHandler.__init__
Init ==
    /\ command_queue = <<>>
    /\ retry_queue = <<>>
    /\ pending_confirmations = <<>>
    /\ queue_running = FALSE
    /\ tasks = <<>>
    /\ mqtt_api = FALSE
    /\ retained = [t \in StateTopics |-> NoPayload]
    /\ subscribed = {}
    /\ discovery = {}
    /\ lost = "none"
    /\ lastKind = "none"
    /\ lastEvent = NoEvent
    /\ nextId = 1
    /\ sends = [c \in CmdIds |-> 0]
    /\ published = [c \in CmdIds |-> 0]
    /\ okConfirmed = {}
    /\ errorLog = {}
    /\ sinceSend = GapTicks

Next ==
    \/ on_connect /\ UNCHANGED ghostVars
    \/ connection_lost /\ UNCHANGED ghostVars
    \/ \E m \in MsgInputs : on_message(m[1], m[2]) /\ UNCHANGED ghostVars
    \/ \E i \in 1..MaxTasks : QueueProcessorStep(i) /\ UNCHANGED ghostVars
    \/ \E i \in 1..MaxTasks : TimeoutWatchdogStep(i) /\ UNCHANGED ghostVars
    \/ \E code \in Tokens, success \in BOOLEAN :
          on_confirmation(code, success) /\ UNCHANGED ghostVars
    \/ Tick /\ UNCHANGED ghostVars

Spec == Init /\ [][Next]_vars

\* The MQTT connection is lost.  MqttClient defines no on_disconnect, so
\* nothing of the handler or of the queue system changes.
mqtt_disconnect ==
    /\ mqtt_api
    /\ UNCHANGED <<queueVars, queue_running, tasks, mqtt_api, retained,
                   mqttVars, histVars>>

\* Spec with the transport losses recorded in lost: "pci" or "mqtt" from a
\* loss to the next connect.  No set message arrives while the MQTT
\* connection is down.  Connects arrive one at a time here: after the
\* dispatcher started by the previous one has run.
NextLoss ==
    \/ /\ queue_running \/ tasks = <<>>
       /\ on_connect
       /\ lost' = "none"
       /\ UNCHANGED <<lastKind, lastEvent>>
    \/ /\ connection_lost
       /\ lost' = IF lost = "mqtt" THEN "mqtt" ELSE "pci"
       /\ UNCHANGED <<lastKind, lastEvent>>
    \/ /\ lost # "mqtt"
       /\ mqtt_disconnect
       /\ lost' = "mqtt"
       /\ UNCHANGED <<lastKind, lastEvent>>
    \/ /\ lost # "mqtt"
       /\ \E m \in MsgInputs : on_message(m[1], m[2])
       /\ UNCHANGED ghostVars
    \/ \E i \in 1..MaxTasks : QueueProcessorStep(i) /\ UNCHANGED ghostVars
    \/ \E i \in 1..MaxTasks : TimeoutWatchdogStep(i) /\ UNCHANGED ghostVars
    \/ \E code \in Tokens, success \in BOOLEAN :
          on_confirmation(code, success) /\ UNCHANGED ghostVars
    \/ Tick /\ UNCHANGED ghostVars

SpecLoss == Init /\ [][NextLoss]_vars

\* set messages for two group addresses: a light and a switch
OrderInputs ==
    { <<1, [fmt |-> "plain", text |-> "ON"]>>,
      <<2, [fmt |-> "plain", text |-> "OFF"]>> }

\* The queue system while both transports stay up, with commands for two
\* group addresses.
NextOrder ==
    \/ on_connect /\ UNCHANGED ghostVars
    \/ \E m \in OrderInputs : on_message(m[1], m[2]) /\ UNCHANGED ghostVars
    \/ \E i \in 1..MaxTasks : QueueProcessorStep(i) /\ UNCHANGED ghostVars
    \/ \E i \in 1..MaxTasks : TimeoutWatchdogStep(i) /\ UNCHANGED ghostVars
    \/ \E code \in Tokens, success \in BOOLEAN :
          on_confirmation(code, success) /\ UNCHANGED ghostVars
    \/ Tick /\ UNCHANGED ghostVars

SpecOrder == Init /\ [][NextOrder]_vars

\* set messages for every kind of device: JSON with and without brightness
\* and transition, in and out of range, plain strings, and payloads that are
\* neither
SetMessages ==
    { <<1, [fmt |-> "json", fields |-> [state |-> "ON", brightness |-> 128]]>>,
      <<1, [fmt |-> "json", fields |-> [state |-> "off", transition |-> 5]]>>,
      <<1, [fmt |-> "json",
            fields |-> [state |-> "ON", brightness |-> 300,
                        transition |-> -1]]>>,
      <<1, [fmt |-> "plain", text |-> "TOGGLE"]>>,
      <<1, [fmt |-> "json", fields |-> [brightness |-> 128]]>>,
      <<2, [fmt |-> "json",
            fields |-> [state |-> "ON", brightness |-> 128,
                        transition |-> 5]]>>,
      <<2, [fmt |-> "plain", text |-> "off"]>>,
      <<3, [fmt |-> "json",
            fields |-> [state |-> "OFF", brightness |-> 128,
                        transition |-> 5]]>>,
      <<3, [fmt |-> "json", fields |-> [state |-> "ON", brightness |-> 0]]>>,
      <<4, [fmt |-> "json", fields |-> [state |-> "ON", brightness |-> 128]]>>,
      <<4, [fmt |-> "plain", text |-> "ON"]>>,
      <<5, [fmt |-> "json", fields |-> [state |-> "ON", transition |-> 5]]>> }

\* The queue system under every kind of set message, with the device type of
\* the last message recorded in lastKind.  One dispatcher, both transports up.
NextMsg ==
    \/ tasks = <<>> /\ on_connect /\ UNCHANGED ghostVars
    \/ \E m \in SetMessages :
          /\ on_message(m[1], m[2])
          /\ lastKind' = get_device_type(m[1])
          /\ UNCHANGED <<lost, lastEvent>>
    \/ \E i \in 1..MaxTasks : QueueProcessorStep(i) /\ UNCHANGED ghostVars
    \/ \E i \in 1..MaxTasks : TimeoutWatchdogStep(i) /\ UNCHANGED ghostVars
    \/ \E code \in Tokens, success \in BOOLEAN :
          on_confirmation(code, success) /\ UNCHANGED ghostVars
    \/ Tick /\ UNCHANGED ghostVars

SpecMsg == Init /\ [][NextMsg]_vars

\* unsolicited bus events, as (source unit, group address) and
\* (source unit, group address, duration, level): for a light, a switch, a
\* binary sensor and an ignored address
OnEvents == { <<7, 1>>, <<7, 4>>, <<7, 5>> }
OffEvents == { <<7, 2>>, <<7, 4>>, <<7, 5>> }
RampEvents == { <<7, 1, 4, 128>>, <<7, 4, 0, 0>>, <<7, 4, 4, 128>>,
                <<7, 5, 4, 128>> }

\* lastEvent after a bus event
BusEvent(kind, group_addr, level, pubs) ==
    [ev |-> "bus", kind |-> kind, ga |-> group_addr, level |-> level,
     pubs |-> pubs]

\* The queue system with one command and bus events arriving at any moment;
\* lastEvent holds the bus event the latest step handled and what it
\* published.  Connects arrive one at a time.
NextBus ==
    \/ /\ queue_running \/ tasks = <<>>
       /\ on_connect
       /\ lastEvent' = NoEvent /\ UNCHANGED <<lost, lastKind>>
    \/ connection_lost /\ lastEvent' = NoEvent /\ UNCHANGED <<lost, lastKind>>
    \/ /\ nextId = 1
       /\ \E m \in MsgInputs : on_message(m[1], m[2])
       /\ lastEvent' = NoEvent /\ UNCHANGED <<lost, lastKind>>
    \/ /\ \E i \in 1..MaxTasks : QueueProcessorStep(i)
       /\ lastEvent' = NoEvent /\ UNCHANGED <<lost, lastKind>>
    \/ /\ \E i \in 1..MaxTasks : TimeoutWatchdogStep(i)
       /\ lastEvent' = NoEvent /\ UNCHANGED <<lost, lastKind>>
    \/ /\ \E code \in Tokens, success \in BOOLEAN :
             on_confirmation(code, success)
       /\ lastEvent' = NoEvent /\ UNCHANGED <<lost, lastKind>>
    \/ Tick /\ lastEvent' = NoEvent /\ UNCHANGED <<lost, lastKind>>
    \/ \E e \in OnEvents :
          /\ on_lighting_group_on(e[1], e[2])
          /\ lastEvent' = BusEvent("on", e[2], 255, OnPublishes(e[1], e[2]))
          /\ UNCHANGED <<lost, lastKind>>
    \/ \E e \in OffEvents :
          /\ on_lighting_group_off(e[1], e[2])
          /\ lastEvent' = BusEvent("off", e[2], 0, OffPublishes(e[1], e[2]))
          /\ UNCHANGED <<lost, lastKind>>
    \/ \E e \in RampEvents :
          /\ on_lighting_group_ramp(e[1], e[2], e[3], e[4])
          /\ lastEvent' = BusEvent("ramp", e[2], e[4],
                              RampPublishes(e[1], e[2], e[3], e[4]))
          /\ UNCHANGED <<lost, lastKind>>

SpecBus == Init /\ [][NextBus]_vars

\* lastEvent after a dispatcher step: the command whose send returned no
\* token, if the step made such a send
SendEvent ==
    IF /\ \E c \in CmdIds : sends'[c] > sends[c]
       /\ Ids(pending_confirmations') = Ids(pending_confirmations)
    THEN [ev |-> "send_failed",
          id |-> CHOOSE c \in CmdIds : sends'[c] > sends[c]]
    ELSE NoEvent

\* lastEvent after a watchdog step: the commands whose entries it removed
TimeoutEvent ==
    IF Ids(pending_confirmations') # Ids(pending_confirmations)
    THEN [ev |-> "timeout",
          ids |-> Ids(pending_confirmations) \ Ids(pending_confirmations')]
    ELSE NoEvent

\* lastEvent after a confirmation: whether its code was in the pending map
ConfirmEvent(code, success) ==
    IF DictHas(pending_confirmations, code)
    THEN [ev |-> "confirm", id |-> DictGet(pending_confirmations, code).id,
          success |-> success]
    ELSE [ev |-> "stray", code |-> code, success |-> success]

\* Spec with connects arriving one at a time and with lastEvent recording
\* what the latest connect, dispatcher, watchdog or confirmation step did.
NextTrace ==
    \/ /\ queue_running \/ tasks = <<>>
       /\ on_connect
       /\ lastEvent' = [ev |-> "connect", calls |-> on_connect_calls]
       /\ UNCHANGED <<lost, lastKind>>
    \/ connection_lost /\ lastEvent' = NoEvent /\ UNCHANGED <<lost, lastKind>>
    \/ /\ \E m \in MsgInputs : on_message(m[1], m[2])
       /\ lastEvent' = NoEvent /\ UNCHANGED <<lost, lastKind>>
    \/ /\ \E i \in 1..MaxTasks : QueueProcessorStep(i)
       /\ lastEvent' = SendEvent /\ UNCHANGED <<lost, lastKind>>
    \/ /\ \E i \in 1..MaxTasks : TimeoutWatchdogStep(i)
       /\ lastEvent' = TimeoutEvent /\ UNCHANGED <<lost, lastKind>>
    \/ \E code \in Tokens, success \in BOOLEAN :
          /\ on_confirmation(code, success)
          /\ lastEvent' = ConfirmEvent(code, success)
          /\ UNCHANGED <<lost, lastKind>>
    \/ Tick /\ lastEvent' = NoEvent /\ UNCHANGED <<lost, lastKind>>

SpecTrace == Init /\ [][NextTrace]_vars

\* JSON objects with a state and, each optionally, a brightness and a
\* transition: <<>> for an absent key, <<v>> for the value v
JsonObject(state, brightness, transition) ==
    [fmt |-> "json",
     fields |->
        [k \in {"state"}
               \cup (IF brightness = <<>> THEN {} ELSE {"brightness"})
               \cup (IF transition = <<>> THEN {} ELSE {"transition"})
         |-> IF k = "state" THEN state
             ELSE IF k = "brightness" THEN brightness[1]
             ELSE transition[1]]]

\* set messages for the dimmable light: every combination of a state, a
\* brightness (absent, below, inside and above 0..255) and a transition
\* (absent, negative, zero, positive)
DimmableMessages ==
    { <<1, JsonObject(st, b, t)>> :
        st \in {"ON", "OFF"},
        b \in {<<>>, <<-5>>, <<0>>, <<128>>, <<255>>, <<300>>},
        t \in {<<>>, <<-1>>, <<0>>, <<5>>} }

\* payloads that are not JSON objects
Literals ==
    { [fmt |-> "plain", text |-> "ON"],
      [fmt |-> "plain", text |-> "off"],
      [fmt |-> "plain", text |-> " on "],
      [fmt |-> "plain", text |-> " OFF "],
      [fmt |-> "plain", text |-> "TOGGLE"],
      [fmt |-> "json_string", text |-> "ON"],
      [fmt |-> "json_string", text |-> "off"],
      [fmt |-> "json_string", text |-> "TOGGLE"],
      [fmt |-> "json_number", value |-> 1] }

\* set messages with such payloads, for the light, the switch and the
\* on/off light
LiteralMessages == {1, 2, 3} \X Literals

\* JSON set messages for the switch and the on/off light
OnOffMessages ==
    { <<2, JsonObject("ON", <<128>>, <<5>>)>>,
      <<2, JsonObject("OFF", <<>>, <<5>>)>>,
      <<3, JsonObject("ON", <<0>>, <<>>)>>,
      <<3, JsonObject("OFF", <<128>>, <<5>>)>> }

\* The queue system with one set message, which is any of the payloads
\* above; lastEvent holds the message or the confirmation the latest step
\* handled.  One dispatcher, both transports up.
NextParse ==
    \/ /\ tasks = <<>>
       /\ on_connect
       /\ lastEvent' = NoEvent /\ UNCHANGED <<lost, lastKind>>
    \/ \E msg \in DimmableMessages \cup LiteralMessages \cup OnOffMessages :
          /\ nextId = 1
          /\ on_message(msg[1], msg[2])
          /\ lastEvent' = [ev |-> "message", ga |-> msg[1], p |-> msg[2]]
          /\ UNCHANGED <<lost, lastKind>>
    \/ /\ \E i \in 1..MaxTasks : QueueProcessorStep(i)
       /\ lastEvent' = NoEvent /\ UNCHANGED <<lost, lastKind>>
    \/ /\ \E i \in 1..MaxTasks : TimeoutWatchdogStep(i)
       /\ lastEvent' = NoEvent /\ UNCHANGED <<lost, lastKind>>
    \/ \E code \in Tokens, success \in BOOLEAN :
          /\ on_confirmation(code, success)
          /\ lastEvent' = ConfirmEvent(code, success)
          /\ UNCHANGED <<lost, lastKind>>
    \/ Tick /\ lastEvent' = NoEvent /\ UNCHANGED <<lost, lastKind>>

SpecParse == Init /\ [][NextParse]_vars

\* the steps the event loop owes: a task that is ready runs, and the clock
\* moves on when none is
DispatcherRuns ==
    /\ \E i \in 1..MaxTasks : QueueProcessorStep(i)
    /\ UNCHANGED ghostVars
WatchdogRuns ==
    /\ \E i \in 1..MaxTasks : TimeoutWatchdogStep(i)
    /\ UNCHANGED ghostVars
TimePasses == Tick /\ UNCHANGED ghostVars

\* The queue system started once and never stopped.
NextLive ==
    \/ tasks = <<>> /\ on_connect /\ UNCHANGED ghostVars
    \/ \E m \in MsgInputs : on_message(m[1], m[2]) /\ UNCHANGED ghostVars
    \/ DispatcherRuns
    \/ WatchdogRuns
    \/ \E code \in Tokens, success \in BOOLEAN :
          on_confirmation(code, success) /\ UNCHANGED ghostVars
    \/ TimePasses

\* asyncio runs every ready task and fires every timer: the dispatcher and
\* the watchdog run whenever they are due, and time advances whenever no
\* task is due.  Confirmations and set messages are not owed.
SpecLive ==
    /\ Init
    /\ [][NextLive]_vars
    /\ WF_vars(DispatcherRuns)
    /\ WF_vars(WatchdogRuns)
    /\ WF_vars(TimePasses)

\* Spec with lost = "pci" from a stop_queue_system call (connection_lost)
\* to the next on_connect, which calls start_queue_system.
NextStop ==
    \/ on_connect /\ lost' = "none" /\ UNCHANGED <<lastKind, lastEvent>>
    \/ connection_lost /\ lost' = "pci" /\ UNCHANGED <<lastKind, lastEvent>>
    \/ \E m \in MsgInputs : on_message(m[1], m[2]) /\ UNCHANGED ghostVars
    \/ \E i \in 1..MaxTasks : QueueProcessorStep(i) /\ UNCHANGED ghostVars
    \/ \E i \in 1..MaxTasks : TimeoutWatchdogStep(i) /\ UNCHANGED ghostVars
    \/ \E code \in Tokens, success \in BOOLEAN :
          on_confirmation(code, success) /\ UNCHANGED ghostVars
    \/ Tick /\ UNCHANGED ghostVars

SpecStop == Init /\ [][NextStop]_vars

\* the command the last frame was sent for and the command whose state was
\* published last, as lastEvent holds them; 0 before there is one
LastSent == IF lastEvent.ev = "last" THEN lastEvent.sent ELSE 0
LastPublished == IF lastEvent.ev = "last" THEN lastEvent.pub ELSE 0

\* The queue system started once and never stopped, all commands being for
\* group address 1 and no bus event arriving; lastEvent holds the command of
\* the last frame and the command of the last publish.
NextLast ==
    \/ tasks = <<>> /\ on_connect /\ UNCHANGED ghostVars
    \/ \E m \in MsgInputs : on_message(m[1], m[2]) /\ UNCHANGED ghostVars
    \/ /\ \E i \in 1..MaxTasks : QueueProcessorStep(i)
       /\ lastEvent' =
             IF \E c \in CmdIds : sends'[c] > sends[c]
             THEN [ev |-> "last",
                   sent |-> CHOOSE c \in CmdIds : sends'[c] > sends[c],
                   pub |-> LastPublished]
             ELSE lastEvent
       /\ UNCHANGED <<lost, lastKind>>
    \/ \E i \in 1..MaxTasks : TimeoutWatchdogStep(i) /\ UNCHANGED ghostVars
    \/ \E code \in Tokens, success \in BOOLEAN :
          /\ on_confirmation(code, success)
          /\ lastEvent' =
                IF \E c \in CmdIds : published'[c] > published[c]
                THEN [ev |-> "last", sent |-> LastSent,
                      pub |-> CHOOSE c \in CmdIds :
                                 published'[c] > published[c]]
                ELSE lastEvent
          /\ UNCHANGED <<lost, lastKind>>
    \/ Tick /\ UNCHANGED ghostVars

SpecLast == Init /\ [][NextLast]_vars

--------------------------------------------------------------------------
(* Properties *)

LiveIds ==
    Ids(command_queue) \cup Ids(retry_queue) \cup Ids(pending_confirmations)
IsPrefix(a, b) == Len(a) <= Len(b) /\ SubSeq(b, 1, Len(a)) = a
\* the step sends a frame for command c
Sent(c) == sends'[c] > sends[c]
Procs == {i \in DOMAIN tasks : tasks[i].kind = "proc"}
Watchdogs == {i \in DOMAIN tasks : tasks[i].kind = "wd"}
\* stop_queue_system has been called and nothing has been started since
Stopped == ~queue_running /\ tasks = <<>>

\* C1: any two consecutive frame sends are at least 100 ms apart, in every
\* execution, start and stop calls included: a step that sends a frame finds
\* the previous send at least an inter-frame gap back.
C1_MinGap ==
    [][(\E c \in CmdIds : Sent(c)) => sinceSend >= GapTicks]_vars

\* C2: every queued command is sent at most 4 times in total, whatever the
\* mix of negative confirmations, timeouts and sends without a token.
C2_AtMostFourSends == \A c \in CmdIds : sends[c] <= 4
C2_Witness == \E c \in CmdIds : sends[c] = 4 /\ c \in errorLog

\* C3: a state publish made for a command is preceded by a confirmation with
\* success=True for a token under which that command was pending.
C3_PublishOnlyConfirmed ==
    \A c \in CmdIds : published[c] > 0 => c \in okConfirmed
C3_Witness ==
    \E c \in CmdIds :
        /\ published[c] = 1
        /\ retained[<<"light", 1>>] # NoPayload

\* C4: a command whose fourth send fails is dropped: it is in none of the
\* fresh queue, retry deque and pending map, it is never queued or sent
\* again, and no state publish was or is made for it.
C4_ExhaustedDropped ==
    /\ \A c \in errorLog :
          c \notin LiveIds /\ sends[c] = 4 /\ published[c] = 0
    /\ \A c \in Ids(command_queue) \cup Ids(retry_queue) : sends[c] < 4
    /\ \A c \in LiveIds : published[c] = 0
C4_Witness ==
    \E c \in errorLog :
        /\ sends[c] = 4
        /\ retained[<<"light", 1>>] = NoPayload

C6_RetryFirst ==
    [][\A c \in CmdIds :
          Sent(c) =>
              IF retry_queue # <<>> THEN Head(retry_queue).id = c
              ELSE command_queue # <<>> /\ Head(command_queue).id = c]_vars
\* the retry of command 1 has just been sent while command 2 waits, unsent,
\* in the fresh queue
C6_Witness ==
    /\ sends[1] >= 2
    /\ sends[2] = 0
    /\ Ids(command_queue) = {2}
    /\ sinceSend = 0

\* C7: retries are re-sent in the order in which they entered the retry
\* deque: the deque only grows at its tail, and only loses its head, in the
\* step that re-sends that head.
C7_RetryFifo ==
    [][\/ IsPrefix(retry_queue, retry_queue')
       \/ /\ retry_queue # <<>>
          /\ Sent(Head(retry_queue).id)
          /\ IsPrefix(Tail(retry_queue), retry_queue')]_vars
\* two retries wait in the deque, the one that entered first at its head,
\* after an earlier retry was already re-sent
C7_Witness ==
    /\ Len(retry_queue) = 2
    /\ retry_queue[1].retry_count >= 2

\* C8: at most one dispatcher task and at most one watchdog task are live,
\* after any sequence of start and stop calls.
C8_OneTaskEach == Cardinality(Procs) <= 1 /\ Cardinality(Watchdogs) <= 1

\* C9: immediately after stop_queue_system returns, the fresh queue, the
\* retry deque and the pending map are empty.
C9_StopClears ==
    [][(queue_running /\ ~queue_running') =>
          /\ command_queue' = <<>>
          /\ retry_queue' = <<>>
          /\ pending_confirmations' = <<>>]_vars

\* C10: a command that was pending at stop_queue_system causes no publish
\* and no re-queue afterwards.  While the system is stopped every pending
\* entry is such a command, so no step taken then publishes or adds to the
\* retry deque.
C10_NoEffectAfterStop ==
    [][Stopped =>
          /\ published' = published
          /\ Len(retry_queue') <= Len(retry_queue)]_vars

\* C11: from the loss of either transport, MQTT or PCI, until the next MQTT
\* connect the dispatcher sends no frame.
C11_NoSendWhileLost ==
    [][lost # "none" => \A c \in CmdIds : ~Sent(c)]_vars

\* C12: for two commands A and B on the same group address, A enqueued before
\* B, no frame of A is sent once a frame of B has been sent.  Ids are given
\* in enqueue order, and every command Spec accepts is for group address 1.
C12_SameAddressFifo ==
    [][\A a, b \in CmdIds :
          (a < b /\ sends[b] > 0) => ~Sent(a)]_vars

\* C13: first sends happen in enqueue order across all group addresses: a
\* command has been sent only if every command enqueued before it has.
C13_FirstSendOrder ==
    \A a, b \in CmdIds : (a < b /\ sends[b] > 0) => sends[a] > 0
\* command 1, for address 1, was sent and retried before command 2, for
\* address 2, was first sent; both now await their confirmation
C13_Witness ==
    /\ sends[1] >= 2
    /\ sends[2] = 1
    /\ \E i, j \in DOMAIN pending_confirmations :
          /\ pending_confirmations[i].id = 1
          /\ pending_confirmations[i].group_addr = 1
          /\ pending_confirmations[j].id = 2
          /\ pending_confirmations[j].group_addr = 2
          /\ pending_confirmations[j].age = 0

\* every command in the fresh queue, the retry deque and the pending map
Live == command_queue \o retry_queue \o pending_confirmations
LiveNext == command_queue' \o retry_queue' \o pending_confirmations'

\* C14: a set message for a group address of kind ignore or binary_sensor
\* enqueues no command, whatever its payload: the step that handles it leaves
\* the fresh queue, the retry deque and the pending map as they are, sends and
\* publishes nothing, and no command for such an address is ever in any of
\* the three structures, so no frame is ever sent for it.
C14_RejectedNoEffect ==
    [][/\ \A m \in SetMessages :
            (/\ get_device_type(m[1]) \in {_DEVICE_TYPE_IGNORE,
                                           _DEVICE_TYPE_BINARY_SENSOR}
             /\ on_message(m[1], m[2]))
            => UNCHANGED <<queueVars, nextId, sends, published, retained>>
       /\ \A i \in DOMAIN LiveNext :
            LiveNext[i].device_type \notin {_DEVICE_TYPE_IGNORE,
                                            _DEVICE_TYPE_BINARY_SENSOR}]_vars
\* a set message for the binary sensor was handled while command 1 was
\* awaiting its confirmation
C14_Witness ==
    /\ lastKind = _DEVICE_TYPE_BINARY_SENSOR
    /\ nextId = 2
    /\ Ids(pending_confirmations) = {1}
    /\ \A t \in StateTopics : retained[t] = NoPayload

\* C15: every command in the fresh queue, the retry deque or the pending map
\* for a non-dimmable light or a switch has command type on or off, never
\* ramp, whatever state, brightness and transition the set message carried.
C15_OnOffNeverRamp ==
    \A i \in DOMAIN Live :
        Live[i].device_type \in {_DEVICE_TYPE_LIGHT_NON_DIMMABLE,
                                 _DEVICE_TYPE_SWITCH}
        => Live[i].command_type \in {"on", "off"}
\* the switch command made from a message with brightness 128 and transition
\* 5 is in the retry deque, and the non-dimmable light's command made from a
\* message with brightness 0 awaits its confirmation
C15_Witness ==
    /\ \E i \in DOMAIN retry_queue :
          /\ retry_queue[i].device_type = _DEVICE_TYPE_SWITCH
          /\ retry_queue[i].command_type = "on"
    /\ \E i \in DOMAIN pending_confirmations :
          /\ pending_confirmations[i].device_type
                 = _DEVICE_TYPE_LIGHT_NON_DIMMABLE
          /\ pending_confirmations[i].command_type = "on"

C17_OnePublish ==
    [][/\ \A c \in CmdIds :
            /\ published'[c] <= 1
            /\ published'[c] = 1 =>
                  c \notin Ids(command_queue') \cup Ids(retry_queue')
                           \cup Ids(pending_confirmations')
       /\ \A code \in Tokens, success \in BOOLEAN :
            (/\ ~DictHas(pending_confirmations, code)
             /\ on_confirmation(code, success))
            => UNCHANGED <<queueVars, published, retained, errorLog>>]_vars
\* command 1 was sent twice and published once, nothing failed for good
C17_Witness ==
    /\ sends[1] = 2
    /\ published[1] = 1
    /\ 1 \notin LiveIds
    /\ errorLog = {}

\* C18: commands are not de-duplicated or coalesced: every accepted command
\* stays queued until it is sent, a published command was sent, and once two
\* equal On commands for address 1 are both confirmed the retained state of
\* the address is the projected state of the second.
C18_NoDedup ==
    /\ \A c \in 1..(nextId - 1) : c \in LiveIds \/ sends[c] >= 1
    /\ \A c \in CmdIds : published[c] = 1 => sends[c] >= 1
    /\ (\A c \in CmdIds : published[c] = 1) =>
          retained[<<"light", 1>>]
              = lighting_group_on(NoSource, 1, _DEVICE_TYPE_LIGHT).payload
\* both On commands were sent once and confirmed
C18_Witness ==
    /\ sends[1] = 1 /\ sends[2] = 1
    /\ published[1] = 1 /\ published[2] = 1
    /\ retained[<<"light", 1>>].state = "ON"

\* C19: queue_command appends exactly one new command, with zero attempts, to
\* the tail of the fresh queue and leaves the retry deque, the pending map
\* and the commands already queued as they are, whether the queue system is
\* running or stopped: every set message for a light does so.
C19_EnqueueAppends ==
    [][\A m \in MsgInputs :
          (/\ get_device_type(m[1]) = _DEVICE_TYPE_LIGHT
           /\ on_message(m[1], m[2]))
          => /\ nextId' = nextId + 1
             /\ Len(command_queue') = Len(command_queue) + 1
             /\ SubSeq(command_queue', 1, Len(command_queue)) = command_queue
             /\ command_queue'[Len(command_queue')].id = nextId
             /\ command_queue'[Len(command_queue')].retry_count = 0
             /\ sends[nextId] = 0
             /\ UNCHANGED <<retry_queue, pending_confirmations>>]_vars
\* the queue system is stopped, command 1 was sent before the stop and
\* command 2 is in the fresh queue
C19_Witness ==
    /\ Stopped
    /\ sends[1] >= 1
    /\ Ids(command_queue) = {2}
    /\ sends[2] = 0

\* C20: after an MQTT connect, for every group address: a discovery config
\* was published for it iff its kind is not ignore, and its set topic is
\* subscribed under the light prefix and under the switch prefix iff its kind
\* is neither ignore nor binary_sensor.
C20_DiscoveryAndSubscriptions ==
    mqtt_api =>
        \A ga \in ga_range :
            /\ (\E prefix \in {"light", "switch", "binary_sensor"} :
                    <<prefix, ga, "config">> \in discovery)
               <=> get_device_type(ga) # _DEVICE_TYPE_IGNORE
            /\ \A prefix \in {"light", "switch"} :
                  <<prefix, ga, "set">> \in subscribed
                  <=> get_device_type(ga) \notin {_DEVICE_TYPE_IGNORE,
                                                  _DEVICE_TYPE_BINARY_SENSOR}
C20_Witness ==
    /\ mqtt_api
    /\ <<"binary_sensor", 4, "config">> \in discovery
    /\ <<"switch", 3, "set">> \in subscribed
    /\ <<"light", 4, "set">> \notin subscribed
\* C21: once MQTT is connected, a bus event (on, off or ramp) for an address
\* that is not ignored makes exactly one publish, to a state topic of that
\* address, whatever the queue system holds and whether or not it runs; the
\* fresh queue, the retry deque and the pending map stay as they were and no
\* command is accepted or sent.
C21_BusEventPublishesOnce ==
    [][(/\ lastEvent'.ev = "bus"
        /\ mqtt_api
        /\ get_device_type(lastEvent'.ga) # _DEVICE_TYPE_IGNORE)
       => /\ Len(lastEvent'.pubs) = 1
          /\ lastEvent'.pubs[1].topic \in
                {"light", "switch", "binary_sensor"} \X {lastEvent'.ga}
          /\ lastEvent'.pubs[1].payload # NoPayload
          /\ retained'[lastEvent'.pubs[1].topic] = lastEvent'.pubs[1].payload
          /\ \A t \in StateTopics \ {lastEvent'.pubs[1].topic} :
                retained'[t] = retained[t]
          /\ UNCHANGED <<queueVars, queue_running, tasks, nextId, sends,
                         published, errorLog>>]_vars

\* a bus "on" for a light has just been published while a retry is waiting
C21_Witness ==
    /\ lastEvent.ev = "bus"
    /\ lastEvent.kind = "on"
    /\ lastEvent.ga = 1
    /\ Len(lastEvent.pubs) = 1
    /\ retained[<<"light", 1>>] = lastEvent.pubs[1].payload
    /\ retry_queue # <<>>

\* C22: a confirmation whose token is not in the pending map, success or
\* failure, changes nothing: the pending map, the retry deque, the fresh
\* queue and every attempt count stay as they were, nothing is published and
\* nothing is logged as failed.
C22_StrayConfirmationNoEffect ==
    [][lastEvent'.ev = "stray"
       => UNCHANGED <<queueVars, queue_running, tasks, mqtt_api, retained,
                      mqttVars, histVars>>]_vars

\* a failure reported for a token that is not pending, while another
\* command is pending and one waits in the fresh queue
C22_Witness ==
    /\ lastEvent.ev = "stray"
    /\ ~lastEvent.success
    /\ Len(pending_confirmations) = 1
    /\ command_queue # <<>>

\* an entry of the pending map sent more than 250 ms ago
Overdue(cmd) == cmd.age * TickMs > 250
\* the step is a wake-up of a watchdog (not its start)
WatchdogWakes ==
    \E i \in DOMAIN tasks :
        tasks[i].kind = "wd" /\ tasks[i].st = "sleep" /\ TimeoutWatchdogStep(i)

\* C23: the watchdog removes a pending entry only when more than 250 ms
\* have passed since it was sent; every wake-up of the watchdog leaves no
\* entry older than 250 ms in the map and hands each one it removes to retry
\* arbitration as a failure (tail of the retry deque with one more attempt,
\* or logged as failed); and the watchdog wakes 50 ms after it went to
\* sleep, before time advances again.
C23_WatchdogTimeout ==
    [][/\ lastEvent'.ev = "timeout"
          => \A i \in DOMAIN pending_confirmations :
                pending_confirmations[i].id \in lastEvent'.ids
                => Overdue(pending_confirmations[i])
       /\ WatchdogWakes
          => /\ \A j \in DOMAIN pending_confirmations' :
                   ~Overdue(pending_confirmations'[j])
             /\ \A i \in DOMAIN pending_confirmations :
                   Overdue(pending_confirmations[i])
                   => LET cmd == pending_confirmations[i]
                      IN IF cmd.retry_count < MAX_RETRIES
                         THEN \E k \in DOMAIN retry_queue' :
                                 /\ k > Len(retry_queue)
                                 /\ retry_queue'[k].id = cmd.id
                                 /\ retry_queue'[k].retry_count
                                       = cmd.retry_count + 1
                         ELSE /\ cmd.id \in errorLog'
                              /\ cmd.id \notin Ids(retry_queue')
       /\ (Tick /\ queue_running)
          => \A i \in Watchdogs :
                /\ tasks[i].timer * TickMs <= 50
                /\ tasks'[i].timer = 0]_vars

\* the watchdog has just removed a timed-out entry and re-queued its command
C23_Witness ==
    /\ lastEvent.ev = "timeout"
    /\ queue_running
    /\ retry_queue # <<>>
    /\ retry_queue[Len(retry_queue)].id \in lastEvent.ids
    /\ retry_queue[Len(retry_queue)].retry_count = 1

\* the commands appended to the retry deque by the step
Requeued ==
    {retry_queue'[k].id :
        k \in {j \in DOMAIN retry_queue' : j > Len(retry_queue)}}

\* C24: each pending entry is resolved once, by the confirmation handler or
\* by the watchdog: the watchdog re-queues only commands whose entries that
\* same step removed from the pending map, one retry each; a confirmation
\* re-queues at most the command whose entry it removed; and so no command
\* is ever held twice in the fresh queue, the retry deque and the pending
\* map, nor held anywhere once its state has been published.
C24_ResolvedOnce ==
    [][/\ lastEvent'.ev = "timeout"
          => /\ Requeued \subseteq lastEvent'.ids
             /\ Len(retry_queue') - Len(retry_queue) = Cardinality(Requeued)
             /\ lastEvent'.ids \cap Ids(pending_confirmations') = {}
       /\ lastEvent'.ev = "confirm"
          => /\ Requeued \subseteq {lastEvent'.id}
             /\ Len(retry_queue') - Len(retry_queue) = Cardinality(Requeued)
             /\ lastEvent'.id \notin Ids(pending_confirmations')
             /\ lastEvent'.success => Requeued = {}
       /\ Len(command_queue') + Len(retry_queue')
             + Len(pending_confirmations') = Cardinality(LiveIds')
       /\ \A c \in CmdIds : published'[c] > 0 => c \notin LiveIds']_vars

\* a failure has just been confirmed for a command that failed twice
\* before: its entry is gone and it waits once, in the retry deque, while
\* the other command is pending
C24_Witness ==
    /\ lastEvent.ev = "confirm"
    /\ ~lastEvent.success
    /\ Ids(retry_queue) = {lastEvent.id}
    /\ Len(retry_queue) = 1
    /\ retry_queue[1].retry_count = 3
    /\ Len(pending_confirmations) = 1

\* the command with id c as it waits in the fresh queue or the retry deque
Waiting(c) ==
    LET q == command_queue \o retry_queue
    IN q[CHOOSE k \in DOMAIN q : q[k].id = c]

\* C25: a send that returns no token (or raises) puts nothing in the
\* pending map and counts as a failed attempt, as a negative confirmation
\* does: with attempts left the command goes to the tail of the retry deque
\* with one more attempt and no token, otherwise it is dropped and logged
\* as failed; nothing is published, and the dispatcher sleeps the 100 ms
\* inter-frame gap before it sends again.
C25_NoTokenIsFailure ==
    [][lastEvent'.ev = "send_failed"
       => LET cmd == Waiting(lastEvent'.id)
          IN /\ pending_confirmations' = pending_confirmations
             /\ IF cmd.retry_count < MAX_RETRIES
                THEN /\ retry_queue' # <<>>
                     /\ retry_queue'[Len(retry_queue')] =
                           [cmd EXCEPT !.retry_count = @ + 1,
                                       !.is_retry = TRUE,
                                       !.confirmation_code = None,
                                       !.age = 0]
                     /\ cmd.id \notin Ids(command_queue')
                     /\ errorLog' = errorLog
                ELSE /\ cmd.id \notin LiveIds'
                     /\ cmd.id \in errorLog'
             /\ published' = published
             /\ retained' = retained
             /\ \E i \in Procs :
                   /\ Runnable(i)
                   /\ tasks'[i].st = "sleep"
                   /\ tasks'[i].timer * TickMs = 100
             /\ \A i \in Procs : ~(tasks'[i].st = "sleep"
                                   /\ tasks'[i].timer = 0)]_vars

\* the first send of a command has just returned no token: the command is
\* at the tail of the retry deque with one failed attempt
C25_Witness ==
    /\ lastEvent.ev = "send_failed"
    /\ sends[lastEvent.id] = 1
    /\ sinceSend = 0
    /\ pending_confirmations = <<>>
    /\ retry_queue # <<>>
    /\ retry_queue[Len(retry_queue)].id = lastEvent.id
    /\ retry_queue[Len(retry_queue)].retry_count = 1

\* the brightness and the transition of a JSON payload as the specification takes
\* them: defaults 255 and 0, brightness brought into 0..255, transition
\* kept at or above 0
Brightness255(fields) ==
    LET b == IF "brightness" \in DOMAIN fields THEN fields.brightness ELSE 255
    IN IF b < 0 THEN 0 ELSE IF b > 255 THEN 255 ELSE b
Transition0(fields) ==
    LET t == IF "transition" \in DOMAIN fields THEN fields.transition ELSE 0
    IN IF t < 0 THEN 0 ELSE t

\* C26: for the dimmable light, a JSON set message with state ON or OFF
\* enqueues one command: On when ON with brightness 255 and transition 0;
\* Ramp {transition, brightness} for any other ON; Ramp {transition, 0}
\* when OFF with a transition above 0; Off otherwise.
C26_CommandChoice ==
    [][(/\ lastEvent'.ev = "message"
        /\ get_device_type(lastEvent'.ga) = _DEVICE_TYPE_LIGHT
        /\ lastEvent'.p.fmt = "json")
       => LET f == lastEvent'.p.fields
              b == Brightness255(f)
              t == Transition0(f)
              cmd == command_queue'[Len(command_queue')]
          IN /\ Len(command_queue') = Len(command_queue) + 1
             /\ SubSeq(command_queue', 1, Len(command_queue)) = command_queue
             /\ cmd.group_addr = lastEvent'.ga
             /\ IF f.state = "ON" /\ b = 255 /\ t = 0
                THEN cmd.command_type = "on"
                ELSE IF f.state = "ON"
                THEN /\ cmd.command_type = "ramp"
                     /\ cmd.params = [duration |-> t, level |-> b]
                ELSE IF t > 0
                THEN /\ cmd.command_type = "ramp"
                     /\ cmd.params = [duration |-> t, level |-> 0]
                ELSE cmd.command_type = "off"]_vars

\* ON with brightness 300 and transition -1 has just been enqueued as On
C26_Witness ==
    /\ lastEvent.ev = "message"
    /\ lastEvent.p = JsonObject("ON", <<300>>, <<-1>>)
    /\ command_queue # <<>>
    /\ command_queue[Len(command_queue)].command_type = "on"
    /\ command_queue[Len(command_queue)].id = nextId - 1

\* the literal a payload that is not a JSON object spells, trimmed,
\* upper-cased and without surrounding double quotes
LiteralOf(p) ==
    IF p.fmt = "json_number" THEN "1" ELSE Upper(Strip(p.text))

\* C27: on an address that takes commands, a payload that is not a JSON
\* object is accepted exactly when it spells ON or OFF, with or without
\* surrounding double quotes; it then enqueues exactly one command with that
\* state, and any other such payload enqueues nothing.
C27_LiteralAccepted ==
    [][(/\ lastEvent'.ev = "message"
        /\ lastEvent'.p.fmt # "json"
        /\ ~Rejected(get_device_type(lastEvent'.ga)))
       => IF LiteralOf(lastEvent'.p) \in {"ON", "OFF"}
          THEN /\ Len(command_queue') = Len(command_queue) + 1
               /\ SubSeq(command_queue', 1, Len(command_queue))
                     = command_queue
               /\ command_queue'[Len(command_queue')].group_addr
                     = lastEvent'.ga
               /\ command_queue'[Len(command_queue')].mqtt_state_update.state
                     = LiteralOf(lastEvent'.p)
          ELSE UNCHANGED <<command_queue, nextId>>]_vars

\* the pending entry of command c
PendingOf(c) ==
    pending_confirmations[
        CHOOSE i \in DOMAIN pending_confirmations :
            pending_confirmations[i].id = c]

\* C28: the state published on a positive confirmation is the projected
\* state stored with the command when it was enqueued: it goes to the state
\* topic of the device kind recorded then and to no other topic; a light's
\* JSON payload carries the projected state, brightness and transition, and
\* a switch's plain payload is the projected state string.
C28_PublishEqualsProjection ==
    [][\A c \in CmdIds :
          published'[c] > published[c]
          => LET cmd == PendingOf(c)
                 proj == cmd.mqtt_state_update
                 topic == state_topic_for_device(cmd.group_addr,
                                                 proj.device_type)
             IN /\ \A t \in StateTopics \ {topic} :
                      retained'[t] = retained[t]
                /\ IF proj.device_type = _DEVICE_TYPE_SWITCH
                   THEN retained'[topic] = [plain |-> proj.state]
                   ELSE /\ {"state", "brightness", "transition"}
                              \subseteq DOMAIN retained'[topic]
                        /\ retained'[topic].state = proj.state
                        /\ retained'[topic].brightness = proj.brightness
                        /\ retained'[topic].transition = proj.transition]_vars

\* a ramp to level 0 over 5 s (from OFF with transition 5, or from ON with
\* brightness 0) has just been confirmed and published as OFF, 0, 5
C28_Witness ==
    /\ lastEvent.ev = "confirm"
    /\ lastEvent.success
    /\ published[lastEvent.id] = 1
    /\ retained[<<"light", 1>>] # NoPayload
    /\ retained[<<"light", 1>>].state = "OFF"
    /\ retained[<<"light", 1>>].brightness = 0
    /\ retained[<<"light", 1>>].transition = 5

\* C29: a bus event for an ignored address publishes nothing and changes
\* nothing; a bus event for a binary sensor makes one publish, to that
\* address's binary_sensor state topic and to no other topic: OFF for an
\* Off event or a Ramp to level 0, ON otherwise.
C29_IgnoreAndBinarySensor ==
    [][lastEvent'.ev = "bus"
       => LET e == lastEvent'
              device_type == get_device_type(e.ga)
              topic == <<"binary_sensor", e.ga>>
              text == IF e.kind = "off" \/ (e.kind = "ramp" /\ e.level = 0)
                      THEN "OFF" ELSE "ON"
          IN /\ device_type = _DEVICE_TYPE_IGNORE
                => /\ e.pubs = <<>>
                   /\ UNCHANGED <<queueVars, queue_running, tasks, mqtt_api,
                                  retained, mqttVars, histVars>>
             /\ (device_type = _DEVICE_TYPE_BINARY_SENSOR /\ mqtt_api)
                => /\ e.pubs = <<[topic |-> topic,
                                  payload |-> [plain |-> text]]>>
                   /\ retained' = [retained EXCEPT ![topic] = [plain |-> text]]
                   /\ UNCHANGED <<queueVars, queue_running, tasks, mqtt_api,
                                  mqttVars, histVars>>]_vars

\* a Ramp to level 0 for the binary sensor has just been published as OFF,
\* and nothing was ever published for the ignored address
C29_Witness ==
    /\ lastEvent.ev = "bus"
    /\ lastEvent.kind = "ramp"
    /\ lastEvent.ga = 4
    /\ lastEvent.level = 0
    /\ retained[<<"binary_sensor", 4>>] = [plain |-> "OFF"]
    /\ retained[<<"light", 5>>] = NoPayload
    /\ retained[<<"light", 4>>] = NoPayload

\* C30: while the queue system stays running, with the dispatcher and the
\* watchdog scheduled fairly, every accepted command eventually leaves the
\* fresh queue, the retry deque and the pending map for good, either
\* published after a positive confirmation or logged as failed after its
\* attempts ran out; a command waiting in the fresh queue is reached
\* however many retries are ahead of it.
C30_EveryCommandTerminates ==
    \A c \in CmdIds :
        (nextId > c)
        ~> [](/\ c \notin LiveIds
              /\ published[c] = 1 \/ c \in errorLog)

\* both commands are done: one was dropped after four sends, the other was
\* published
C30_Witness ==
    /\ nextId = MaxCmds + 1
    /\ LiveIds = {}
    /\ errorLog = {1}
    /\ sends[1] = MAX_RETRIES + 1
    /\ published[2] = 1

\* the step is a run of a watchdog that removes a pending entry
WatchdogTimesOut ==
    /\ \E i \in 1..MaxTasks : TimeoutWatchdogStep(i)
    /\ pending_confirmations' # pending_confirmations

\* C31: from a call of stop_queue_system to the next call of
\* start_queue_system no frame is sent and the watchdog removes no pending
\* entry.
C31_QuietAfterStop ==
    [][lost = "pci"
       => /\ \A c \in CmdIds : ~Sent(c)
          /\ ~WatchdogTimesOut]_vars

\* the place of a call in a sequence of calls, 0 when it is not made
Place(calls, name) ==
    IF \E i \in DOMAIN calls : calls[i].call = name
    THEN CHOOSE i \in DOMAIN calls : calls[i].call = name
    ELSE 0

Count(q, c) == Cardinality({i \in DOMAIN q : q[i].id = c})
\* command c was published after a positive confirmation, or logged as
\* failed when its attempts ran out
Terminal(c) == published[c] > 0 \/ c \in errorLog
\* the places command c is in
Places(c) ==
    Count(command_queue, c) + Count(retry_queue, c)
        + Count(pending_confirmations, c) + (IF Terminal(c) THEN 1 ELSE 0)

\* C33: every accepted command is at every instant in exactly one place,
\* the fresh queue, the retry deque, the pending map or a terminal state
\* (published once, or logged as failed, never both); a command not yet
\* accepted is nowhere.  This holds whether or not the queue system is
\* stopped.
C33_ExactlyOnePlace ==
    \A c \in CmdIds :
        /\ c < nextId => Places(c) = 1
        /\ c >= nextId => Places(c) = 0
        /\ published[c] <= 1
        /\ ~(published[c] > 0 /\ c \in errorLog)

\* one command is terminal as failed, the other waits in the retry deque
\* behind nothing, and neither is anywhere else
C33_Witness ==
    /\ nextId = MaxCmds + 1
    /\ errorLog = {1}
    /\ Ids(retry_queue) = {2}
    /\ command_queue = <<>>
    /\ pending_confirmations = <<>>
    /\ ~Stopped

\* the latest command enqueued, and the latest one whose state was published
Newest == nextId - 1
NewestPublished ==
    CHOOSE c \in CmdIds :
        /\ published[c] > 0
        /\ \A d \in CmdIds : published[d] > 0 => d <= c

\* C34: last request wins.  Whenever every command enqueued for the group
\* address has reached a terminal state, the last frame sent for the address
\* belongs to the command enqueued last, and the state published last is
\* that of the latest command that succeeded.
C34_LastRequestWins ==
    (nextId > 1 /\ LiveIds = {})
    => /\ LastSent = Newest
       /\ (\E c \in CmdIds : published[c] > 0)
          => LastPublished = NewestPublished

====
